---- MODULE Spec2Model ----
(***************************************************************************)
(* A model of homework_bot (src/homework.py): the poll loop of main() and  *)
(* the functions it calls.  The remote review API and the chat provider    *)
(* are the environment: the API's answer to a GET and the outcome of a     *)
(* chat send are chosen nondeterministically.                              *)
(*                                                                         *)
(* Python values are tagged records, so that values of different Python    *)
(* types can be held by one variable.  The Russian texts of the source are *)
(* written in Latin transliteration, one text per source text.             *)
(***************************************************************************)
EXTENDS Integers, Sequences, FiniteSets, TLC

VARIABLES
    tokens,      \* PRACTICUM_TOKEN, TELEGRAM_TOKEN, TELEGRAM_CHAT_ID (module globals)
    pc,          \* where main() stands
    exit_code,   \* the process's exit status; -1 while it has not exited
    clock,       \* the wall clock, int(time.time())
    timestamp,   \* main's local: the poll cursor
    last_error,  \* main's local: the last error notified
    from_date,   \* params['from_date'] of the last GET issued
    response,    \* main's local: what get_api_answer returned in this cycle
    error,       \* the exception the cycle's try block raised
    sent,        \* the chat sends attempted in this cycle, in order
    cycle,       \* what the last finished cycle did (see Cycle)
    gets,        \* number of GETs issued
    sleeps       \* number of time.sleep calls returned

vars == <<tokens, pc, exit_code, clock, timestamp, last_error, from_date,
          response, error, sent, cycle, gets, sleeps>>

----------------------------------------------------------------------------
(* Bounds of the model *)

\* Poll cycles the model follows (the loop itself has no end).
MaxCycles == 3

----------------------------------------------------------------------------
(* Python values *)

PyNone     == [type |-> "null", val |-> 0]
PyInt(n)   == [type |-> "int", val |-> n]

\* A key that a mapping does not hold.
Absent == "<absent>"

\* An exception object: its class and the message it was built with.
Exc(cls, msg) == [cls |-> cls, msg |-> msg]
NoExc == Exc("None", "")

\* str(e): str(None) is 'None'; str(KeyError(m)) is repr(m); else the message.
Str(e) ==
    IF e.cls = "None" THEN "None"
    ELSE IF e.cls = "KeyError" THEN "'" \o e.msg \o "'"
    ELSE e.msg

----------------------------------------------------------------------------
(* Module constants *)

RETRY_PERIOD == 600

ENDPOINT == "https://practicum.yandex.ru/api/user_api/homework_statuses/"

HOMEWORK_VERDICTS_swapped ==
    [approved  |-> "Rabota proverena: u revyuera est zamechaniya.",
     reviewing |-> "Rabota vzyata na proverku revyuerom.",
     rejected  |-> "Rabota proverena: revyueru vsyo ponravilos. Ura!"]

HOMEWORK_VERDICTS ==
    [approved  |-> "Rabota proverena: revyueru vsyo ponravilos. Ura!",
     reviewing |-> "Rabota vzyata na proverku revyuerom.",
     rejected  |-> "Rabota proverena: u revyuera est zamechaniya."]

TokenNames == {"PRACTICUM_TOKEN", "TELEGRAM_TOKEN", "TELEGRAM_CHAT_ID"}

\* os.getenv gives None for an unset variable, else its (possibly empty) text.
TokenValues == {"<None>", "", "secret"}

----------------------------------------------------------------------------
(* check_tokens *)

missing_tokens(t) == {n \in TokenNames : t[n] \in {"<None>", ""}}

check_tokens_unset_only(t) == {n \in TokenNames : t[n] = "<None>"} = {}

check_tokens(t) == missing_tokens(t) = {}

----------------------------------------------------------------------------
(* send_message: outcome is what bot.send_message did, "ok" or "fail" *)

SendOutcomes == {"ok", "fail"}

\* The outcomes to choose from: bot.send_message is called only when the
\* step sends.
OutcomesIf(sending) == IF sending THEN SendOutcomes ELSE {"ok"}

TelegramError == Exc("ApiTelegramException", "telegram send failed")

send_message_propagates(outcome, message) ==
    [raised    |-> IF outcome = "ok" THEN NoExc ELSE TelegramError,
     delivered |-> outcome = "ok",
     text      |-> message]

send_message(outcome, message) ==
    [raised    |-> NoExc,
     delivered |-> outcome = "ok",
     text      |-> message]

----------------------------------------------------------------------------
(* The remote API's answers *)

\* A homework record as it arrives.
Homework(type, name, status) ==
    [type |-> type, homework_name |-> name, status |-> status]

NameValues   == {Absent, "", "hw1"}
StatusValues == {Absent, "", "approved", "reviewing", "rejected", "resubmitted"}

FirstRecords ==
    {Homework("dict", n, s) : n \in NameValues, s \in StatusValues}
        \cup {Homework("str", Absent, Absent)}

\* What may follow the first record: a record that has no known status.
TailRecord == Homework("dict", "hw2", "resubmitted")

Tails == {<<>>, <<TailRecord>>}

HomeworkLists == {<<>>} \cup {<<h>> \o t : h \in FirstRecords, t \in Tails}

\* The value under a key: present or not, and its Python type.
Field(present, type, val) == [present |-> present, type |-> type, val |-> val]

DateFields ==
    {Field(FALSE, "null", 0), Field(TRUE, "int", 1700000100),
     Field(TRUE, "int", -5), Field(TRUE, "str", 0)}

Json(type, hwPresent, hwType, items, date) ==
    [type |-> type,
     homeworks |-> [present |-> hwPresent, type |-> hwType, items |-> items],
     current_date |-> date]

NoResponse == Json("null", FALSE, "null", <<>>, Field(FALSE, "null", 0))

JsonBodies ==
    {Json("list", FALSE, "null", <<>>, Field(FALSE, "null", 0))}
        \cup {Json("dict", FALSE, "null", <<>>, d) : d \in DateFields}
        \cup {Json("dict", TRUE, "str", <<>>, d) : d \in DateFields}
        \cup {Json("dict", TRUE, "list", l, d) : l \in HomeworkLists, d \in DateFields}

\* What requests.get may come back with.  "badjson" is a 200 whose body is
\* not JSON: response.json() raises, as a RequestException or (older
\* requests) as a plain ValueError.
Answer(kind, code, wrapped, body) ==
    [kind |-> kind, code |-> code, wrapped |-> wrapped, body |-> body]

Answers ==
    {Answer("status", 503, FALSE, NoResponse),
     Answer("transport", 0, FALSE, NoResponse),
     Answer("badjson", 200, TRUE, NoResponse),
     Answer("badjson", 200, FALSE, NoResponse)}
        \cup {Answer("status", 200, FALSE, b) : b \in JsonBodies}

\* Seconds a GET takes: the wall clock moves while the request is out.
Latencies == {3}

----------------------------------------------------------------------------
(* get_api_answer *)

REQUEST_PARAMS(ts) == [url |-> ENDPOINT, from_date |-> ts]

Result(exc, value) == [exc |-> exc, value |-> value]

get_api_answer(answer) ==
    IF answer.kind = "transport"
    THEN Result(Exc("APIRequestError",
                    "Oshibka pri zaprose k API: ConnectionError"), NoResponse)
    ELSE IF answer.code # 200
    THEN Result(Exc("APIRequestError",
                    "Endpoint " \o ENDPOINT \o " nedostupen. Kod otveta API: "
                        \o ToString(answer.code)), NoResponse)
    ELSE IF answer.kind = "badjson"
    THEN IF answer.wrapped
         THEN Result(Exc("APIRequestError",
                         "Oshibka pri zaprose k API: Expecting value"), NoResponse)
         ELSE Result(Exc("ValueError", "Expecting value"), NoResponse)
    ELSE Result(NoExc, answer.body)

----------------------------------------------------------------------------
(* check_response *)

check_response_any_homeworks(r) ==
    IF r.type # "dict"
    THEN Result(Exc("TypeError", "Otvet API dolzhen byt slovarem"), <<>>)
    ELSE IF ~r.homeworks.present
    THEN Result(Exc("APIResponseError",
                    "V otvete API otsutstvuet klyuch \"homeworks\""), <<>>)
    ELSE Result(NoExc, r.homeworks.items)

\* A validator that takes an empty list for a malformed answer.
check_response_rejects_empty(r) ==
    IF r.type # "dict"
    THEN Result(Exc("TypeError", "Otvet API dolzhen byt slovarem"), <<>>)
    ELSE IF ~r.homeworks.present \/ r.homeworks.items = <<>>
    THEN Result(Exc("APIResponseError",
                    "V otvete API otsutstvuet klyuch \"homeworks\""), <<>>)
    ELSE IF r.homeworks.type # "list"
    THEN Result(Exc("TypeError",
                    "Znachenie klyucha \"homeworks\" dolzhno byt spiskom"), <<>>)
    ELSE Result(NoExc, r.homeworks.items)

check_response(r) ==
    IF r.type # "dict"
    THEN Result(Exc("TypeError", "Otvet API dolzhen byt slovarem"), <<>>)
    ELSE IF ~r.homeworks.present
    THEN Result(Exc("APIResponseError",
                    "V otvete API otsutstvuet klyuch \"homeworks\""), <<>>)
    ELSE IF r.homeworks.type # "list"
    THEN Result(Exc("TypeError",
                    "Znachenie klyucha \"homeworks\" dolzhno byt spiskom"), <<>>)
    ELSE Result(NoExc, r.homeworks.items)

----------------------------------------------------------------------------
(* parse_status *)

\* Python's truth value of dict.get(key): None and '' are false.
Falsy(v) == v \in {Absent, ""}

\* HOMEWORK_VERDICTS.get(status) with no check of the status before it.
parse_status_unchecked_status(homework) ==
    IF homework.type # "dict"
    THEN Result(Exc("TypeError", "Homework dolzhen byt slovarem"), "")
    ELSE IF Falsy(homework.homework_name)
    THEN Result(Exc("KeyError",
                    "V otvete API otsutstvuet klyuch \"homework_name\""), "")
    ELSE IF Falsy(homework.status)
    THEN Result(Exc("KeyError",
                    "V otvete API otsutstvuet klyuch \"status\""), "")
    ELSE Result(NoExc,
                "Izmenilsya status proverki raboty \"" \o homework.homework_name
                    \o "\". "
                    \o (IF homework.status \in DOMAIN HOMEWORK_VERDICTS
                        THEN HOMEWORK_VERDICTS[homework.status] ELSE "None"))

parse_status(homework) ==
    IF homework.type # "dict"
    THEN Result(Exc("TypeError", "Homework dolzhen byt slovarem"), "")
    ELSE IF Falsy(homework.homework_name)
    THEN Result(Exc("KeyError",
                    "V otvete API otsutstvuet klyuch \"homework_name\""), "")
    ELSE IF Falsy(homework.status)
    THEN Result(Exc("KeyError",
                    "V otvete API otsutstvuet klyuch \"status\""), "")
    ELSE IF homework.status \notin DOMAIN HOMEWORK_VERDICTS
    THEN Result(Exc("HomeworkStatusUnknown",
                    "Neizvestnyi status raboty: " \o homework.status), "")
    ELSE Result(NoExc,
                "Izmenilsya status proverki raboty \"" \o homework.homework_name
                    \o "\". " \o HOMEWORK_VERDICTS[homework.status])

----------------------------------------------------------------------------
(* main *)

\* sys.exit() with no argument: exit status 0.
sys_exit_status == 0

\* The classes "except Exception" catches: every class raised here derives
\* from Exception.
ExceptionClasses ==
    {"APIRequestError", "APIResponseError", "HomeworkStatusUnknown",
     "TypeError", "KeyError", "ValueError", "ApiTelegramException"}

except_own_classes_only(e) ==
    e.cls \in {"APIRequestError", "APIResponseError", "HomeworkStatusUnknown"}

except_Exception(e) == e.cls \in ExceptionClasses

\* The record main interprets: homeworks[0].
interpreted_homework_last(homeworks) == homeworks[Len(homeworks)]

interpreted_homework(homeworks) == homeworks[1]

\* The comparison that decides whether an error is notified.
is_new_error_always(e, last) == TRUE

is_new_error_by_class(e, last) == e.cls # last.cls

is_new_error(e, last) == Str(e) # Str(last)

\* The recorded error after the except block has sent its notification sm
\* of error e: last_error = error, whatever became of the send.
recorded_error_if_delivered(sm, e, last) == IF sm.delivered THEN e ELSE last

recorded_error(sm, e, last) == e

\* The recorded error when the try block ends: the block never assigns it.
last_error_reset_on_success(raised, last) ==
    IF raised = NoExc THEN NoExc ELSE last

last_error_after_try(raised, last) == last

\* The cursor after a successful cycle: response.get('current_date', now).
next_timestamp_always_now(r, now) == PyInt(now)

next_timestamp(r, now) ==
    IF r.current_date.present
    THEN [type |-> r.current_date.type, val |-> r.current_date.val]
    ELSE PyInt(now)

\* The cursor when the try block ends: the assignment is the block's last
\* statement, so an exception anywhere in the block leaves the cursor alone.
\* got: get_api_answer returned r; raised: the exception of the block.
cursor_after_try_on_answer(got, raised, r, now, ts) ==
    IF got THEN next_timestamp(r, now) ELSE ts

cursor_after_try(got, raised, r, now, ts) ==
    IF raised = NoExc THEN next_timestamp(r, now) ELSE ts

\* What the model remembers of the last finished cycle: how it ended
\* ("ok" or "failed"), the from_date of its GET, the text of its error,
\* whether that text differed from the error recorded before it, the chat
\* sends it attempted, the current_date field of its response and the wall
\* clock when its try block ended; and of the cycle before it: whether it
\* failed with the same text ("same"), with another ("differs"), or did not
\* fail ("none"), and the error sends it attempted.  lost tells whether the
\* latest chat send attempted so far, in this cycle or an earlier one, was not
\* delivered, and of which kind it was ("status", "error"; else "none").
Cycle(state, fd, text, fresh, sends, date, now, repeat, psends, pfresh, lost) ==
    [state |-> state, from_date |-> fd, text |-> text, fresh |-> fresh,
     sends |-> sends, date |-> date, now |-> now, repeat |-> repeat,
     prev_sends |-> psends, prev_fresh |-> pfresh, lost |-> lost]

\* lost after a step: kind is the kind of the send the step attempted.
Lost(sending, sm, kind) ==
    IF ~sending THEN cycle.lost
    ELSE IF sm.delivered THEN "none" ELSE kind

NoDate == Field(FALSE, "null", 0)

NoCycle ==
    Cycle("none", PyNone, "", FALSE, 0, NoDate, 0, "none", 0, FALSE, "none")

Sent(sm) == [text |-> sm.text, delivered |-> sm.delivered]

Init ==
    /\ tokens \in [TokenNames -> TokenValues]
    /\ pc = "start"
    /\ exit_code = -1
    /\ clock = 1700000000
    /\ timestamp = PyNone
    /\ last_error = NoExc
    /\ from_date = PyNone
    /\ response = NoResponse
    /\ error = NoExc
    /\ sent = <<>>
    /\ cycle = NoCycle
    /\ gets = 0
    /\ sleeps = 0

\* main, up to the loop: check_tokens, sys.exit or the locals' first values.
Startup ==
    /\ pc = "start"
    /\ IF ~check_tokens(tokens)
       THEN /\ pc' = "exited"
            /\ exit_code' = sys_exit_status
            /\ UNCHANGED <<timestamp, last_error>>
       ELSE /\ pc' = "loop"
            /\ timestamp' = PyInt(clock)
            /\ last_error' = NoExc
            /\ UNCHANGED exit_code
    /\ UNCHANGED <<tokens, clock, from_date, response, error, sent, cycle,
                   gets, sleeps>>

\* The head of an iteration: get_api_answer(timestamp) issues requests.get.
GetRequest ==
    /\ pc = "loop"
    /\ gets < MaxCycles
    /\ pc' = "wait"
    /\ gets' = gets + 1
    /\ from_date' = REQUEST_PARAMS(timestamp).from_date
    /\ sent' = <<>>
    /\ error' = NoExc
    /\ UNCHANGED <<tokens, exit_code, clock, timestamp, last_error, response,
                   cycle, sleeps>>

\* The cycle's summary when its try block ended without an exception.
CycleOk(sends, date, now, lost) ==
    Cycle("ok", from_date, "", FALSE, sends, date, now, "none",
          IF cycle.state = "failed" THEN cycle.sends ELSE 0,
          cycle.state = "failed" /\ cycle.fresh, lost)

\* The cycle's summary when the except block has handled exception e.
CycleFailed(e, sends, lost) ==
    Cycle("failed", from_date, Str(e), Str(e) # Str(last_error), sends,
          NoDate, clock,
          IF cycle.state # "failed" THEN "none"
          ELSE IF cycle.text = Str(e) THEN "same" ELSE "differs",
          IF cycle.state = "failed" THEN cycle.sends ELSE 0,
          cycle.state = "failed" /\ cycle.fresh, lost)

\* requests.get comes back and the try block runs to its end:
\* get_api_answer returns the body or raises, then check_response,
\* parse_status of the first record and its send, then the cursor.
TryBlock ==
    /\ pc = "wait"
    /\ \E a \in Answers, d \in Latencies :
         LET now == clock + d
             ga == get_api_answer(a)
             cr == IF ga.exc = NoExc THEN check_response(ga.value)
                                     ELSE Result(NoExc, <<>>)
             ps == IF ga.exc = NoExc /\ cr.exc = NoExc /\ cr.value # <<>>
                   THEN parse_status(interpreted_homework(cr.value))
                   ELSE Result(NoExc, "")
             sending == /\ ga.exc = NoExc /\ cr.exc = NoExc
                        /\ cr.value # <<>> /\ ps.exc = NoExc
         IN
         \E outcome \in OutcomesIf(sending) :
         LET sm == send_message(outcome, ps.value)
             raised == IF ga.exc # NoExc THEN ga.exc
                       ELSE IF cr.exc # NoExc THEN cr.exc
                       ELSE IF ps.exc # NoExc THEN ps.exc
                       ELSE IF sending THEN sm.raised
                       ELSE NoExc
         IN
         /\ clock' = now
         /\ response' = IF ga.exc = NoExc THEN ga.value ELSE response
         /\ sent' = IF sending THEN Append(sent, Sent(sm)) ELSE sent
         /\ timestamp' = cursor_after_try(ga.exc = NoExc, raised, ga.value, now,
                                          timestamp)
         /\ IF raised = NoExc
            THEN /\ pc' = "finally"
                 /\ cycle' = CycleOk(Len(sent'), ga.value.current_date, now,
                                     Lost(sending, sm, "status"))
                 /\ UNCHANGED error
            ELSE /\ error' = raised
                 /\ pc' = IF except_Exception(raised) THEN "except"
                                                      ELSE "finally_raise"
                 /\ UNCHANGED cycle
         /\ last_error' = last_error_after_try(raised, last_error)
    /\ UNCHANGED <<tokens, exit_code, from_date, gets, sleeps>>

\* The except block.
HandleError ==
    /\ pc = "except"
    /\ \E outcome \in OutcomesIf(is_new_error(error, last_error)) :
         LET error_message == "Sboi v rabote programmy: " \o Str(error)
             sm == send_message(outcome, error_message)
             sending == is_new_error(error, last_error)
         IN
         /\ sent' = IF sending THEN Append(sent, Sent(sm)) ELSE sent
         /\ cycle' = CycleFailed(error, Len(sent'), Lost(sending, sm, "error"))
         /\ IF sending /\ sm.raised # NoExc
            THEN /\ error' = sm.raised
                 /\ pc' = "finally_raise"
                 /\ UNCHANGED last_error
            ELSE /\ last_error' = IF sending
                                  THEN recorded_error(sm, error, last_error)
                                  ELSE last_error
                 /\ pc' = "finally"
                 /\ UNCHANGED error
    /\ UNCHANGED <<tokens, exit_code, clock, timestamp, from_date, response,
                   gets, sleeps>>

\* A loop that sleeps in its except block only.
Sleep_only_after_error ==
    /\ pc \in {"finally", "finally_raise"}
    /\ sleeps' = IF cycle.state = "ok" THEN sleeps ELSE sleeps + 1
    /\ clock' = IF cycle.state = "ok" THEN clock ELSE clock + RETRY_PERIOD
    /\ response' = NoResponse
    /\ IF pc = "finally"
       THEN pc' = "loop" /\ UNCHANGED exit_code
       ELSE pc' = "crashed" /\ exit_code' = 1
    /\ UNCHANGED <<tokens, timestamp, last_error, from_date, error, sent,
                   cycle, gets>>

\* The finally block: time.sleep(RETRY_PERIOD), then the next iteration, or
\* out of main with the exception that nothing caught (exit status 1).  The
\* response is not read again and is dropped here.
Sleep ==
    /\ pc \in {"finally", "finally_raise"}
    /\ sleeps' = sleeps + 1
    /\ clock' = clock + RETRY_PERIOD
    /\ response' = NoResponse
    /\ IF pc = "finally"
       THEN pc' = "loop" /\ UNCHANGED exit_code
       ELSE pc' = "crashed" /\ exit_code' = 1
    /\ UNCHANGED <<tokens, timestamp, last_error, from_date, error, sent,
                   cycle, gets>>

Next ==
    \/ Startup
    \/ GetRequest
    \/ TryBlock
    \/ HandleError
    \/ Sleep

Spec == Init /\ [][Next]_vars

\* The program's own steps always go on; the remote API's answer is not the
\* program's to schedule, and requests.get is called without a timeout.
FairSpec ==
    /\ Spec
    /\ WF_vars(Startup)
    /\ WF_vars(GetRequest)
    /\ WF_vars(HandleError)
    /\ WF_vars(Sleep)

----------------------------------------------------------------------------
(* Properties *)

AllTokensSet == \A n \in TokenNames : tokens[n] \notin {"<None>", ""}

Running == {"loop", "wait", "except", "finally"}

\* from_date as the cursor rule gives it for a response whose current_date
\* field is d, read at wall-clock time now.
CursorFor(d, now) ==
    IF d.present THEN [type |-> d.type, val |-> d.val] ELSE PyInt(now)

\* C1, as stated: of two consecutive failing cycles with the same error
\* text exactly one error notification is sent over the two, and with
\* differing texts two are.
C1_DedupAsStated ==
    cycle.state = "failed" =>
        /\ cycle.repeat = "same" => cycle.prev_sends + cycle.sends = 1
        /\ cycle.repeat = "differs" => cycle.prev_sends + cycle.sends = 2

\* C1, amended: of two consecutive failing cycles with the same error text
\* the second attempts no notification, and one is attempted over the two
\* exactly when the first cycle's text differed from the error recorded
\* before it; with differing texts the second attempts one, and two are
\* attempted over the two exactly when the first cycle's text differed from
\* the error recorded before it.
C1_Dedup ==
    cycle.state = "failed" =>
        /\ cycle.repeat = "same" =>
             /\ cycle.sends = 0
             /\ cycle.prev_sends + cycle.sends = IF cycle.prev_fresh THEN 1 ELSE 0
        /\ cycle.repeat = "differs" =>
             /\ cycle.sends = 1
             /\ cycle.prev_sends + cycle.sends = IF cycle.prev_fresh THEN 2 ELSE 1

C1_Witness ==
    /\ pc = "finally"
    /\ cycle.state = "failed"
    /\ cycle.repeat = "same"
    /\ cycle.prev_sends = 1
    /\ sent = <<>>

\* C2: the GET that follows a successful cycle carries the current_date of
\* that cycle's response, or, when the response had none, the wall clock
\* read when that cycle's try block ended.
C2_CursorAdvance ==
    (pc = "wait" /\ cycle.state = "ok") =>
        from_date = CursorFor(cycle.date, cycle.now)

C2_Witness ==
    /\ pc = "wait"
    /\ cycle.state = "ok"
    /\ cycle.date.present
    /\ from_date = PyInt(1700000100)

\* C3: after a cycle that ended in an error the cursor is the from_date of
\* that cycle's GET, and the next GET carries the same from_date.
C3_ErrorKeepsCursor ==
    cycle.state = "failed" =>
        /\ timestamp = cycle.from_date
        /\ pc = "wait" => from_date = cycle.from_date

C3_Witness ==
    /\ pc = "wait"
    /\ gets = 2
    /\ cycle.state = "failed"
    /\ cycle.text = "Neizvestnyi status raboty: resubmitted"
    /\ from_date = cycle.from_date

\* C4: a step that attempts a chat send raises nothing, whatever the send
\* did: it ends at the finally block with the state a delivered send leaves
\* (after a status message the cursor advanced and the recorded error kept;
\* after an error message the error recorded and the cursor kept).
C4_SendNeverFails ==
    [][Len(sent') > Len(sent) =>
          /\ pc' = "finally"
          /\ error' = error
          /\ exit_code' = exit_code
          /\ IF pc = "wait"
             THEN /\ cycle'.state = "ok"
                  /\ timestamp' = CursorFor(response'.current_date, clock')
                  /\ last_error' = last_error
             ELSE /\ cycle'.state = "failed"
                  /\ timestamp' = timestamp
                  /\ last_error' = error]_vars

C4_Witness ==
    /\ pc = "loop"
    /\ sleeps >= 1
    /\ Len(sent) = 1
    /\ ~sent[1].delivered

\* C5: with all three credentials set, main never leaves the loop: it has
\* no exit status, whatever the API answered and the sends did.
C5_NeverTerminates ==
    (AllTokensSet /\ pc # "start") => (pc \in Running /\ exit_code = -1)

C5_Witness ==
    /\ pc = "loop"
    /\ sleeps = 2
    /\ cycle.state = "failed"
    /\ cycle.text = "Otvet API dolzhen byt slovarem"
    /\ Len(sent) = 1
    /\ ~sent[1].delivered

\* C6: a GET is issued only when every earlier iteration has slept once, a
\* sleep happens only in an iteration that issued its GET and has not
\* slept, and each sleep lasts 600 seconds.
C6_OneGetOneSleep ==
    [][/\ gets' \in {gets, gets + 1}
       /\ sleeps' \in {sleeps, sleeps + 1}
       /\ gets' = gets + 1 => (sleeps = gets /\ sleeps' = sleeps)
       /\ sleeps' = sleeps + 1 =>
            (gets = sleeps + 1 /\ gets' = gets /\ clock' = clock + 600)
       /\ (pc # "loop" /\ pc' = "loop") => sleeps' = gets']_vars

C6_Witness ==
    /\ pc = "wait"
    /\ gets = 3
    /\ sleeps = 2
    /\ cycle.state = "ok"

C8_FatalExitIsFailure ==
    pc = "exited" => exit_code # 0

C10_CycleReachesSleep ==
    (pc = "wait") ~> (pc \in {"finally", "finally_raise"})

----------------------------------------------------------------------------
(* Properties of the interpreter and the validator *)

\* The cycle's try block has ended and get_api_answer had returned a body.
Answered == pc \in {"except", "finally"} /\ response # NoResponse

\* The body passes the validator: a mapping whose homeworks is a sequence.
WellShaped ==
    /\ response.type = "dict"
    /\ response.homeworks.present
    /\ response.homeworks.type = "list"

\* The validated sequence is not empty and its first record is a mapping
\* with a non-empty name and a non-empty status.
FirstRecordFilled ==
    /\ WellShaped
    /\ response.homeworks.items # <<>>
    /\ response.homeworks.items[1].type = "dict"
    /\ response.homeworks.items[1].homework_name \notin {Absent, ""}
    /\ response.homeworks.items[1].status \notin {Absent, ""}

KnownStatuses == {"approved", "reviewing", "rejected"}

\* The verdict texts as the specification lists them.
VerdictText(status) ==
    CASE status = "approved" ->
           "Rabota proverena: revyueru vsyo ponravilos. Ura!"
      [] status = "reviewing" -> "Rabota vzyata na proverku revyuerom."
      [] status = "rejected" ->
           "Rabota proverena: u revyuera est zamechaniya."

\* C11: for a first record with a non-empty name and a known status the
\* message parse_status returns, which is the one text the cycle sends, is
\* the template with the record's name and the verdict of its status.
C11_StatusTemplate ==
    (Answered /\ FirstRecordFilled
        /\ response.homeworks.items[1].status \in KnownStatuses) =>
        /\ error = NoExc
        /\ Len(sent) = 1
        /\ sent[1].text =
             "Izmenilsya status proverki raboty \""
                 \o response.homeworks.items[1].homework_name \o "\". "
                 \o VerdictText(response.homeworks.items[1].status)

C11_Witness ==
    /\ pc = "finally"
    /\ Len(sent) = 1
    /\ sent[1].text = "Izmenilsya status proverki raboty \"hw1\". "
                         \o "Rabota proverena: u revyuera est zamechaniya."

\* C12, as stated: for a first record whose status is outside the known
\* set, parse_status raises the unknown-status condition and no message is
\* sent in that cycle.
C12_UnknownStatusAsStated ==
    (pc = "finally" /\ response # NoResponse /\ FirstRecordFilled
        /\ response.homeworks.items[1].status \notin KnownStatuses) =>
        /\ error.cls = "HomeworkStatusUnknown"
        /\ sent = <<>>

\* C12, amended: for a first record with a non-empty name and a non-empty
\* status outside the known set, parse_status raises the unknown-status
\* condition and no status message is sent in that cycle; the cycle fails,
\* and its only send is the error notification, attempted exactly when the
\* error text differs from the recorded one.
C12_UnknownStatus ==
    (Answered /\ FirstRecordFilled
        /\ response.homeworks.items[1].status \notin KnownStatuses) =>
        /\ error = Exc("HomeworkStatusUnknown",
                       "Neizvestnyi status raboty: "
                           \o response.homeworks.items[1].status)
        /\ pc = "except" => sent = <<>>
        /\ pc = "finally" =>
             /\ cycle.state = "failed"
             /\ Len(sent) = IF cycle.fresh THEN 1 ELSE 0
             /\ \A i \in 1..Len(sent) :
                  sent[i].text = "Sboi v rabote programmy: "
                                    \o "Neizvestnyi status raboty: "
                                    \o response.homeworks.items[1].status

C12_Witness ==
    /\ pc = "finally"
    /\ FirstRecordFilled
    /\ response.homeworks.items[1].status = "resubmitted"
    /\ error.cls = "HomeworkStatusUnknown"
    /\ Len(sent) = 1

\* C13: check_response fails a body that is no mapping with TypeError, a
\* mapping without the homeworks key with APIResponseError, a mapping whose
\* homeworks is no sequence with TypeError, and otherwise returns the
\* homeworks sequence as it came; the cycle's error is that failure, and
\* with a returned sequence it is none of these.
C13_ResponseClassified ==
    Answered =>
        IF response.type # "dict"
        THEN /\ error = Exc("TypeError", "Otvet API dolzhen byt slovarem")
             /\ check_response(response).exc = error
        ELSE IF ~response.homeworks.present
        THEN /\ error = Exc("APIResponseError",
                            "V otvete API otsutstvuet klyuch \"homeworks\"")
             /\ check_response(response).exc = error
        ELSE IF response.homeworks.type # "list"
        THEN /\ error = Exc("TypeError",
                            "Znachenie klyucha \"homeworks\" dolzhno byt spiskom")
             /\ check_response(response).exc = error
        ELSE /\ check_response(response) =
                  Result(NoExc, response.homeworks.items)
             /\ error.cls \in {"None", "KeyError", "HomeworkStatusUnknown",
                               "TypeError"}
             /\ error.cls = "TypeError" =>
                  error.msg = "Homework dolzhen byt slovarem"
             /\ response.homeworks.items = <<>> => error = NoExc

C13_Witness ==
    /\ pc = "finally"
    /\ response.type = "dict"
    /\ response.homeworks.present
    /\ response.homeworks.type = "str"
    /\ error.cls = "TypeError"
    /\ cycle.state = "failed"

----------------------------------------------------------------------------
(* Properties of the error path and the cursor *)

\* C14: a failing cycle attempts an error notification exactly when its
\* error text differs from the recorded one, and the recorded text is then
\* the cycle's; so of two consecutive failing cycles with different texts
\* the second always attempts one.
C14_NotifyIffNew ==
    cycle.state = "failed" =>
        /\ cycle.sends = IF cycle.fresh THEN 1 ELSE 0
        /\ Str(last_error) = cycle.text
        /\ cycle.repeat = "differs" => (cycle.fresh /\ cycle.sends = 1)
        /\ pc = "finally" =>
             /\ Len(sent) = cycle.sends
             /\ \A i \in 1..Len(sent) :
                  sent[i].text = "Sboi v rabote programmy: " \o cycle.text

C14_Witness ==
    /\ pc = "finally"
    /\ gets = 3
    /\ cycle.state = "failed"
    /\ cycle.repeat = "differs"
    /\ cycle.prev_fresh
    /\ cycle.prev_sends = 1
    /\ Len(sent) = 1

\* C15: the recorded error changes only in the except block of a cycle
\* whose error text differs from it, and becomes that cycle's error; a
\* successful cycle leaves it, and a failing cycle whose text equals it
\* attempts no send, whatever cycles lie between.
C15_LastErrorFrame ==
    [][/\ last_error' # last_error =>
            /\ pc = "except"
            /\ Str(error) # Str(last_error)
            /\ last_error' = error
       /\ (pc = "except" /\ Str(error) = Str(last_error)) =>
            /\ sent' = sent
            /\ last_error' = last_error]_vars

\* fail(A), success, fail(A): the third cycle has attempted no send.
C15_Witness ==
    /\ pc = "finally"
    /\ gets = 3
    /\ cycle.state = "failed"
    /\ cycle.repeat = "none"
    /\ ~cycle.fresh
    /\ sent = <<>>

\* C16: the cursor, and the from_date of every GET issued, is a
\* non-negative integer.
C16_CursorNonNegativeInt ==
    pc \in {"loop", "wait", "except", "finally"} =>
        /\ timestamp.type = "int"
        /\ timestamp.val >= 0
        /\ gets > 0 => (from_date.type = "int" /\ from_date.val >= 0)

----------------------------------------------------------------------------
(* Properties of the try block *)

\* C17: with two or more validated records the cycle does what the first
\* record alone decides: its error is the first record's (none when the
\* first record is well formed), its only sends are the first record's
\* status message or the notification of the first record's error, and with
\* a well-formed first record it succeeds and the cursor advances.
C17_OnlyFirstRecord ==
    (Answered /\ WellShaped /\ Len(response.homeworks.items) >= 2) =>
        LET first == parse_status(response.homeworks.items[1]) IN
        /\ error = first.exc
        /\ \A i \in 1..Len(sent) :
             sent[i].text = IF first.exc = NoExc THEN first.value
                            ELSE "Sboi v rabote programmy: " \o Str(first.exc)
        /\ first.exc = NoExc =>
             /\ pc = "finally"
             /\ cycle.state = "ok"
             /\ Len(sent) = 1
             /\ timestamp = CursorFor(response.current_date, cycle.now)

\* The first record is sent, the second (of unknown status) is passed over
\* and the cursor is the response's current_date.
C17_Witness ==
    /\ pc = "finally"
    /\ WellShaped
    /\ Len(response.homeworks.items) = 2
    /\ response.homeworks.items[2].status = "resubmitted"
    /\ cycle.state = "ok"
    /\ Len(sent) = 1
    /\ timestamp = PyInt(1700000100)

\* C18: the try block of a cycle whose response is a mapping with an empty
\* homeworks sequence attempts no send and raises nothing: the cursor
\* advances by the current_date rule, the recorded error stays, and the
\* cycle stands at its finally block, where it sleeps.
C18_EmptyHomeworks ==
    [][(pc = "wait" /\ pc' # "wait"
          /\ response'.type = "dict"
          /\ response'.homeworks.present
          /\ response'.homeworks.type = "list"
          /\ response'.homeworks.items = <<>>) =>
          /\ pc' = "finally"
          /\ sent' = <<>>
          /\ error' = NoExc
          /\ cycle'.state = "ok"
          /\ timestamp' = CursorFor(response'.current_date, clock')
          /\ last_error' = last_error
          /\ sleeps' = sleeps]_vars

\* An empty answer after a recorded error: nothing sent, the error kept.
C18_Witness ==
    /\ pc = "finally"
    /\ WellShaped
    /\ response.homeworks.items = <<>>
    /\ ~response.current_date.present
    /\ sent = <<>>
    /\ cycle.state = "ok"
    /\ last_error # NoExc
    /\ timestamp = PyInt(clock)

----------------------------------------------------------------------------
(* Properties of undelivered sends *)

\* C19: the except block of a cycle whose error text differs from the
\* recorded one attempts one send and records the error, delivered or not;
\* and when the latest send attempted was an undelivered error notification
\* and the cycle's error text equals the recorded one, it attempts no send.
C19_RecordedThoughUndelivered ==
    [][pc = "except" =>
          /\ Str(error) # Str(last_error) =>
               /\ Len(sent') = Len(sent) + 1
               /\ last_error' = error
               /\ pc' = "finally"
          /\ (cycle.lost = "error" /\ Str(error) = Str(last_error)) =>
               /\ sent' = sent
               /\ last_error' = last_error
               /\ cycle'.lost = "error"]_vars

\* The notification of the recorded error was not delivered, this cycle
\* failed with the same text and attempted no send.
C19_Witness ==
    /\ pc = "finally"
    /\ cycle.state = "failed"
    /\ ~cycle.fresh
    /\ cycle.text = Str(last_error)
    /\ cycle.lost = "error"
    /\ sent = <<>>

\* C20: a try block whose status send was not delivered ends as a
\* successful one: nothing raised, the cursor advanced by the current_date
\* rule, the recorded error kept, no second send; and in the cycles after
\* an undelivered status message every send is the one the cycle's own
\* response or error gives, so an empty answer sends nothing.
C20_UndeliveredStatus ==
    [][/\ (pc = "wait" /\ sent' # <<>> /\ ~sent'[1].delivered) =>
            /\ pc' = "finally"
            /\ error' = NoExc
            /\ cycle'.state = "ok"
            /\ cycle'.lost = "status"
            /\ Len(sent') = 1
            /\ timestamp' = CursorFor(response'.current_date, clock')
            /\ last_error' = last_error
       /\ (pc = "wait" /\ pc' # "wait" /\ cycle.lost = "status") =>
            /\ Len(sent') <= 1
            /\ sent' # <<>> =>
                 /\ response'.homeworks.items # <<>>
                 /\ sent'[1].text =
                      parse_status(response'.homeworks.items[1]).value
       /\ (pc = "except" /\ cycle.lost = "status" /\ sent' # sent) =>
            /\ Len(sent') = 1
            /\ sent'[1].text = "Sboi v rabote programmy: " \o Str(error)]_vars

\* After an undelivered status message, a cycle with an empty answer has
\* sent nothing.
C20_Witness ==
    /\ pc = "finally"
    /\ gets >= 2
    /\ cycle.state = "ok"
    /\ cycle.lost = "status"
    /\ WellShaped
    /\ response.homeworks.items = <<>>
    /\ sent = <<>>

====
